---- MODULE Spec2Model ----
(***************************************************************************)
(* Company (Empresa) CRUD of app/routers/empresa.py over a relational      *)
(* store, its three format validators, the concurrent execution of two     *)
(* create requests, and the Borrow lifecycle.                              *)
(*                                                                         *)
(* A Python str is a sequence of one-character strings.  An Optional[str]  *)
(* is a sequence of length at most one: << >> is None, <<s>> is the str s. *)
(***************************************************************************)
EXTENDS Integers, Sequences, FiniteSets

VARIABLES store, nextId, req, resp, sess, arg, ret, borrows

vars == <<store, nextId, req, resp, sess, arg, ret, borrows>>

(***************************************************************************)
(* Bounds of the model.                                                    *)
(***************************************************************************)
\* ids the store hands out (AUTO_INCREMENT runs 1..MaxId)
MaxId == 2
\* length of the digit strings fed to the validators
MaxLen == 15
\* Borrow rows ever created
MaxBorrow == 3

(***************************************************************************)
(* Characters and strings.                                                 *)
(***************************************************************************)
Digitos == {"0", "1", "2", "3", "4", "5", "6", "7", "8", "9"}

Letras ==
    {"a", "b", "c", "d", "e", "f", "g", "h", "i", "j", "k", "l", "m",
     "n", "o", "p", "q", "r", "s", "t", "u", "v", "w", "x", "y", "z",
     "A", "B", "C", "D", "E", "F", "G", "H", "I", "J", "K", "L", "M",
     "N", "O", "P", "Q", "R", "S", "T", "U", "V", "W", "X", "Y", "Z"}

None == << >>

Some(s) == <<s>>

\* Python truthiness of an Optional[str]: None and "" are falsy
Truthy(v) == v # None /\ v[1] # << >>

IsDigito(c) == c \in Digitos

\* re.sub(r'[^0-9]', '', s)
SoDigitos(s) == SelectSeq(s, IsDigito)

Rep(c, n) == [i \in 1..n |-> c]

(***************************************************************************)
(* The validators.                                                         *)
(***************************************************************************)
\* a faulty variant: the all-equal-digits test is dropped
validar_cnpj_semIguais(cnpj) == Len(SoDigitos(cnpj)) = 14

validar_cnpj(cnpj) ==
    LET limpo == SoDigitos(cnpj)
    IN  IF Len(limpo) # 14 THEN FALSE
        ELSE IF limpo = Rep(limpo[1], 14) THEN FALSE
        ELSE TRUE

\* ^[a-zA-Z0-9._%+-]+@[a-zA-Z0-9.-]+\.[a-zA-Z]{2,}$ , matched from the start;
\* $ also matches just before one trailing newline
validar_email(email) ==
    LET n0 == Len(email)
        n == IF n0 > 0 /\ email[n0] = "\n" THEN n0 - 1 ELSE n0
        Local == Letras \cup Digitos \cup {".", "_", "%", "+", "-"}
        Dominio == Letras \cup Digitos \cup {".", "-"}
    IN  \E i \in 2..n :
          /\ email[i] = "@"
          /\ \A k \in 1..(i - 1) : email[k] \in Local
          /\ \E j \in (i + 2)..(n - 2) :
                /\ email[j] = "."
                /\ \A k \in (i + 1)..(j - 1) : email[k] \in Dominio
                /\ \A k \in (j + 1)..n : email[k] \in Letras

validar_telefone(telefone) == Len(SoDigitos(telefone)) \in {10, 11}

(***************************************************************************)
(* Strings the requests carry.                                             *)
(***************************************************************************)
\* "12.345.678/0001-95"
CnpjFmtA == <<"1", "2", ".", "3", "4", "5", ".", "6", "7", "8", "/", "0", "0", "0", "1", "-", "9", "5">>

\* "12345678000195"
CnpjPlainA == <<"1", "2", "3", "4", "5", "6", "7", "8", "0", "0", "0", "1", "9", "5">>

\* "98765432000110"
CnpjPlainB == <<"9", "8", "7", "6", "5", "4", "3", "2", "0", "0", "0", "1", "1", "0">>

\* "11111111111111"
CnpjIguais == Rep("1", 14)

\* ""
Vazia == << >>

\* "ana@b.co"
EmailBom == <<"a", "n", "a", "@", "b", ".", "c", "o">>

\* "ana.b.co"
EmailRuim == <<"a", "n", "a", ".", "b", ".", "c", "o">>

\* "(47) 9999-0000"
FoneBom == <<"(", "4", "7", ")", " ", "9", "9", "9", "9", "-", "0", "0", "0", "0">>

\* "9999-0000"
FoneRuim == <<"9", "9", "9", "9", "-", "0", "0", "0", "0">>

(***************************************************************************)
(* Schemas.  EmpresaCreate and EmpresaUpdate are records over Campos plus  *)
(* fields_set, pydantic's model_fields_set: the fields the request body    *)
(* carried.  A field outside fields_set holds its default, None.           *)
(***************************************************************************)
Campos ==
    {"cnpj", "razao_social", "nome_fantasia", "numero_contato",
     "email_contato", "website"}

EmpresaCreate(cnpj, razao, fantasia, numero, email, site) ==
    [cnpj |-> Some(cnpj), razao_social |-> Some(razao),
     nome_fantasia |-> fantasia, numero_contato |-> numero,
     email_contato |-> email, website |-> site,
     fields_set |-> {"cnpj", "razao_social"}
                      \cup (IF fantasia # None THEN {"nome_fantasia"} ELSE {})
                      \cup (IF numero # None THEN {"numero_contato"} ELSE {})
                      \cup (IF email # None THEN {"email_contato"} ELSE {})
                      \cup (IF site # None THEN {"website"} ELSE {})]

\* an EmpresaUpdate: vals gives the supplied fields, every other field is unset
EmpresaUpdate(vals) ==
    [cnpj |-> IF "cnpj" \in DOMAIN vals THEN vals["cnpj"] ELSE None,
     razao_social |-> IF "razao_social" \in DOMAIN vals
                        THEN vals["razao_social"] ELSE None,
     nome_fantasia |-> IF "nome_fantasia" \in DOMAIN vals
                         THEN vals["nome_fantasia"] ELSE None,
     numero_contato |-> IF "numero_contato" \in DOMAIN vals
                          THEN vals["numero_contato"] ELSE None,
     email_contato |-> IF "email_contato" \in DOMAIN vals
                         THEN vals["email_contato"] ELSE None,
     website |-> IF "website" \in DOMAIN vals THEN vals["website"] ELSE None,
     fields_set |-> DOMAIN vals]

SemPayload == EmpresaUpdate([f \in {} |-> None])

\* the request bodies of POST /empresas/
CreatePayloads ==
    { EmpresaCreate(c, r, None, None, None, w) :
        c \in {CnpjFmtA, CnpjPlainA, CnpjPlainB, CnpjIguais},
        r \in {<<"x">>, <<"y">>}, w \in {None, Some(<<"w">>)} }
    \cup
    { EmpresaCreate(Vazia, <<"x">>, None, None, None, None),
      EmpresaCreate(CnpjPlainB, <<"x">>, Some(<<"n">>), Some(FoneBom),
                    Some(EmailBom), None),
      EmpresaCreate(CnpjPlainB, <<"x">>, None, None, Some(EmailRuim), None),
      EmpresaCreate(CnpjPlainB, <<"x">>, None, Some(FoneRuim), None, None) }

\* the request bodies of PUT /empresas/{id}
UpdatePayloads ==
    { EmpresaUpdate([f \in fs |->
                       CASE f = "cnpj" -> c
                         [] f = "razao_social" -> Some(<<"y">>)
                         [] OTHER -> w]) :
        fs \in SUBSET {"cnpj", "razao_social", "website"},
        c \in {None, Some(Vazia), Some(CnpjFmtA), Some(CnpjPlainB),
               Some(CnpjIguais)},
        w \in {None, Some(<<"w">>)} }
    \cup
    { EmpresaUpdate([f \in {"email_contato"} |-> Some(EmailRuim)]),
      EmpresaUpdate([f \in {"numero_contato"} |-> Some(FoneRuim)]),
      EmpresaUpdate([f \in {"nome_fantasia", "numero_contato", "email_contato"}
                       |-> IF f = "nome_fantasia" THEN None ELSE Some(Vazia)]),
      EmpresaUpdate([f \in {"nome_fantasia", "numero_contato", "email_contato"}
                       |-> CASE f = "nome_fantasia" -> Some(<<"n">>)
                             [] f = "numero_contato" -> Some(FoneBom)
                             [] OTHER -> Some(EmailBom)]) }

(***************************************************************************)
(* The store: the empresa table, id -> row, and its AUTO_INCREMENT.        *)
(***************************************************************************)
\* a faulty variant: the table accepts any rows
StoreAccepts_semIndice(rows) == TRUE

\* the table's constraint, checked at commit: cnpj is a unique index
StoreAccepts(rows) ==
    \A i, j \in DOMAIN rows : i # j => rows[i].cnpj # rows[j].cnpj

\* the primary key of the next inserted row
NewId == nextId

Requests ==
    [op : {"criar"}, id : {0}, p : CreatePayloads]
    \cup [op : {"atualizar"}, id : 1..(MaxId + 1), p : UpdatePayloads]
    \cup [op : {"deletar", "buscar"}, id : 1..(MaxId + 1), p : {SemPayload}]

NoReq == [op |-> "none", id |-> 0, p |-> SemPayload]

NoResp == [kind |-> "none", id |-> 0]

Resp(kind, id) == [kind |-> kind, id |-> id]

IdleSess == [s \in {1, 2} |-> [pc |-> "idle", p |-> SemPayload, resp |-> NoResp]]

Outros == <<sess, arg, ret, borrows>>

NoRet == [fn |-> "none", val |-> FALSE]

\* the handler of op has a request to serve
Pendente(op) == req.op = op /\ resp = NoResp

(***************************************************************************)
(* criar_empresa                                                           *)
(***************************************************************************)
\* the format checks of create: "ok" or the error they raise
CriarValida(p) ==
    IF ~validar_cnpj(p.cnpj[1]) THEN "ValidationError"
    ELSE IF Truthy(p.email_contato) /\ ~validar_email(p.email_contato[1])
      THEN "ValidationError"
    ELSE IF Truthy(p.numero_contato) /\ ~validar_telefone(p.numero_contato[1])
      THEN "ValidationError"
    ELSE "ok"

\* a faulty variant: the query compares the cnpj as the request wrote it
EmpresaExistente_semLimpar(rows, p) ==
    \E i \in DOMAIN rows : rows[i].cnpj = p.cnpj

\* db.query(Empresa).filter(Empresa.cnpj == cnpj_limpo).first() is not None
EmpresaExistente(rows, p) ==
    LET cnpj_limpo == SoDigitos(p.cnpj[1])
    IN  \E i \in DOMAIN rows : rows[i].cnpj = Some(cnpj_limpo)

\* Empresa(cnpj=cnpj_limpo, ...)
NovaEmpresa(p) ==
    [cnpj |-> Some(SoDigitos(p.cnpj[1])),
     razao_social |-> p.razao_social,
     nome_fantasia |-> p.nome_fantasia,
     numero_contato |-> p.numero_contato,
     email_contato |-> p.email_contato,
     website |-> p.website]

\* db.add(row); db.commit(): the rows after, or the rows as they were when
\* the table refuses the insert
Inserir(rows, id, row) ==
    [i \in DOMAIN rows \cup {id} |-> IF i = id THEN row ELSE rows[i]]

criar_empresa ==
    /\ Pendente("criar")
    /\ UNCHANGED <<req, Outros>>
    /\ LET p == req.p
       IN  IF CriarValida(p) # "ok"
             THEN /\ resp' = Resp(CriarValida(p), 0)
                  /\ UNCHANGED <<store, nextId>>
           ELSE IF EmpresaExistente(store, p)
             THEN /\ resp' = Resp("Conflict", 0)
                  /\ UNCHANGED <<store, nextId>>
           ELSE IF StoreAccepts(Inserir(store, NewId, NovaEmpresa(p)))
             THEN /\ store' = Inserir(store, NewId, NovaEmpresa(p))
                  /\ nextId' = nextId + 1
                  /\ resp' = Resp("ok", NewId)
           ELSE /\ resp' = Resp("StoreError", 0)
                /\ UNCHANGED <<store, nextId>>

(***************************************************************************)
(* atualizar_empresa                                                       *)
(***************************************************************************)
\* a faulty variant: the query does not exclude the row being updated
OutraEmpresaExistente_semExcluir(rows, id, p) ==
    \E i \in DOMAIN rows : rows[i].cnpj = Some(SoDigitos(p.cnpj[1]))

\* db.query(Empresa).filter(Empresa.cnpj == cnpj_limpo,
\*                          Empresa.id != empresa_id).first() is not None
OutraEmpresaExistente(rows, id, p) ==
    LET cnpj_limpo == SoDigitos(p.cnpj[1])
    IN  \E i \in DOMAIN rows : rows[i].cnpj = Some(cnpj_limpo) /\ i # id

\* the checks of update, in the code's order: "ok" or the error they raise
AtualizarValida(rows, id, p) ==
    IF Truthy(p.cnpj) /\ ~validar_cnpj(p.cnpj[1]) THEN "ValidationError"
    ELSE IF Truthy(p.cnpj) /\ OutraEmpresaExistente(rows, id, p)
      THEN "Conflict"
    ELSE IF Truthy(p.email_contato) /\ ~validar_email(p.email_contato[1])
      THEN "ValidationError"
    ELSE IF Truthy(p.numero_contato) /\ ~validar_telefone(p.numero_contato[1])
      THEN "ValidationError"
    ELSE "ok"

\* a faulty variant: every field of the schema is written, unset ones as None
AplicaUpdate_todos(db_empresa, p) ==
    [f \in Campos |->
       IF f = "cnpj" /\ p.cnpj # None THEN Some(SoDigitos(p.cnpj[1]))
       ELSE p[f]]

\* model_dump(exclude_unset=True), the cnpj stripped, then setattr per item
AplicaUpdate(db_empresa, p) ==
    [f \in Campos |->
       IF f \notin p.fields_set THEN db_empresa[f]
       ELSE IF f = "cnpj" THEN Some(SoDigitos(p.cnpj[1]))
       ELSE p[f]]

atualizar_empresa ==
    /\ Pendente("atualizar")
    /\ UNCHANGED <<req, Outros>>
    /\ UNCHANGED nextId
    /\ LET p == req.p
           id == req.id
       IN  IF id \notin DOMAIN store
             THEN /\ resp' = Resp("NotFound", id)
                  /\ UNCHANGED store
           ELSE IF AtualizarValida(store, id, p) # "ok"
             THEN /\ resp' = Resp(AtualizarValida(store, id, p), id)
                  /\ UNCHANGED store
           ELSE IF "cnpj" \in p.fields_set /\ p.cnpj = None
             \* re.sub(..., None) raises TypeError, which nothing catches
             THEN /\ resp' = Resp("InternalError", id)
                  /\ UNCHANGED store
           ELSE LET rows == [store EXCEPT ![id] = AplicaUpdate(store[id], p)]
                IN  IF StoreAccepts(rows)
                      THEN /\ store' = rows
                           /\ resp' = Resp("ok", id)
                      ELSE /\ resp' = Resp("StoreError", id)
                           /\ UNCHANGED store

(***************************************************************************)
(* deletar_empresa, buscar_empresa                                         *)
(***************************************************************************)
\* a faulty variant: delete empties the table
Remover_tudo(rows, id) == [i \in {} |-> rows[i]]

\* db.delete(db_empresa); db.commit()
Remover(rows, id) == [i \in DOMAIN rows \ {id} |-> rows[i]]

deletar_empresa ==
    /\ Pendente("deletar")
    /\ UNCHANGED <<req, Outros>>
    /\ UNCHANGED nextId
    /\ IF req.id \notin DOMAIN store
         THEN /\ resp' = Resp("NotFound", req.id)
              /\ UNCHANGED store
         ELSE /\ store' = Remover(store, req.id)
              /\ resp' = Resp("ok", req.id)

buscar_empresa ==
    /\ Pendente("buscar")
    /\ UNCHANGED <<req, Outros>>
    /\ UNCHANGED <<store, nextId>>
    /\ IF req.id \notin DOMAIN store
         THEN resp' = Resp("NotFound", req.id)
         ELSE resp' = Resp("ok", req.id)

(***************************************************************************)
(* One request at a time: it arrives, its handler runs, the response       *)
(* leaves.                                                                 *)
(***************************************************************************)
Receive(r) ==
    /\ req = NoReq
    /\ r.op = "criar" => nextId <= MaxId
    /\ req' = r
    /\ resp' = NoResp
    /\ UNCHANGED <<store, nextId, Outros>>

Deliver ==
    /\ req # NoReq
    /\ resp # NoResp
    /\ req' = NoReq
    /\ resp' = NoResp
    /\ UNCHANGED <<store, nextId, Outros>>

\* main.py drops and creates the tables: the store starts empty
Init ==
    /\ store = << >>
    /\ nextId = 1
    /\ req = NoReq
    /\ resp = NoResp
    /\ sess = IdleSess
    /\ arg = << >>
    /\ ret = NoRet
    /\ borrows = << >>

Next ==
    \/ \E r \in Requests : Receive(r)
    \/ criar_empresa
    \/ atualizar_empresa
    \/ deletar_empresa
    \/ buscar_empresa
    \/ Deliver

Spec == Init /\ [][Next]_vars

(***************************************************************************)
(* Two create requests, each in the session get_db gives it.  A session    *)
(* reads the table when its query runs and writes it when it commits; the  *)
(* other session may run in between.                                       *)
(***************************************************************************)
Sessions == {1, 2}

ConcReceive(s, p) ==
    /\ sess[s].pc = "idle"
    /\ nextId <= MaxId
    /\ sess' = [sess EXCEPT ![s] = [pc |-> "recebido", p |-> p, resp |-> NoResp]]
    /\ UNCHANGED <<store, nextId, req, resp, arg, ret, borrows>>

\* criar_empresa up to its query: the format checks, then empresa_existente
ConcVerifica(s) ==
    /\ sess[s].pc = "recebido"
    /\ LET p == sess[s].p
       IN  IF CriarValida(p) # "ok"
             THEN sess' = [sess EXCEPT ![s].pc = "feito",
                                       ![s].resp = Resp(CriarValida(p), 0)]
           ELSE IF EmpresaExistente(store, p)
             THEN sess' = [sess EXCEPT ![s].pc = "feito",
                                       ![s].resp = Resp("Conflict", 0)]
           ELSE sess' = [sess EXCEPT ![s].pc = "verificado"]
    /\ UNCHANGED <<store, nextId, req, resp, arg, ret, borrows>>

\* criar_empresa from db.add to its return: nothing catches what commit raises
ConcCommit(s) ==
    /\ sess[s].pc = "verificado"
    /\ LET rows == Inserir(store, NewId, NovaEmpresa(sess[s].p))
       IN  IF StoreAccepts(rows)
             THEN /\ store' = rows
                  /\ nextId' = nextId + 1
                  /\ sess' = [sess EXCEPT ![s].pc = "feito",
                                          ![s].resp = Resp("ok", NewId)]
             ELSE /\ sess' = [sess EXCEPT ![s].pc = "feito",
                                          ![s].resp = Resp("StoreError", 0)]
                  /\ UNCHANGED <<store, nextId>>
    /\ UNCHANGED <<req, resp, arg, ret, borrows>>

\* the response leaves and get_db closes the session
ConcDeliver(s) ==
    /\ sess[s].pc = "feito"
    /\ sess' = [sess EXCEPT ![s] = [pc |-> "idle", p |-> SemPayload, resp |-> NoResp]]
    /\ UNCHANGED <<store, nextId, req, resp, arg, ret, borrows>>

NextConc ==
    \/ \E s \in Sessions, p \in CreatePayloads : ConcReceive(s, p)
    \/ \E s \in Sessions : ConcVerifica(s)
    \/ \E s \in Sessions : ConcCommit(s)
    \/ \E s \in Sessions : ConcDeliver(s)

SpecConc == Init /\ [][NextConc]_vars

(***************************************************************************)
(* The validators, applied to strings.                                     *)
(***************************************************************************)
\* s with c put after its first i characters (at its end when s is shorter)
Insere(s, i, c) ==
    LET k == IF i > Len(s) THEN Len(s) ELSE i
    IN  [j \in 1..(Len(s) + 1) |->
           IF j <= k THEN s[j] ELSE IF j = k + 1 THEN c ELSE s[j - 1]]

\* runs of one digit, with at most one other digit in them
SoNumeros ==
    { [k \in 1..n |-> IF k = i THEN "2" ELSE "1"] : n \in 0..MaxLen, i \in 0..MaxLen }

Entradas ==
    SoNumeros
    \cup { Insere(s, i, c) : s \in SoNumeros, i \in {0, 2, 5, 14},
                             c \in {".", "/", "-", " ", "x"} }
    \cup { CnpjFmtA, CnpjPlainA, CnpjPlainB, CnpjIguais, Vazia,
           EmailBom, EmailRuim, FoneBom, FoneRuim,
           EmailBom \o <<"\n">>, <<"@", "b", ".", "c", "o">>,
           <<"a", "@", "b", ".", "c">>, <<"a", "@", ".", "c", "o">>,
           <<"a", "@", "b", "@", "c", ".", "c", "o">>,
           FoneBom \o <<"1">>, FoneBom \o <<"1", "2">> }

InitValidar ==
    /\ arg \in Entradas
    /\ ret = NoRet
    /\ store = << >>
    /\ nextId = 1
    /\ req = NoReq
    /\ resp = NoResp
    /\ sess = IdleSess
    /\ borrows = << >>

Chama_validar_cnpj ==
    /\ ret = NoRet
    /\ ret' = [fn |-> "validar_cnpj", val |-> validar_cnpj(arg)]
    /\ UNCHANGED <<store, nextId, req, resp, sess, arg, borrows>>

Chama_validar_email ==
    /\ ret = NoRet
    /\ ret' = [fn |-> "validar_email", val |-> validar_email(arg)]
    /\ UNCHANGED <<store, nextId, req, resp, sess, arg, borrows>>

Chama_validar_telefone ==
    /\ ret = NoRet
    /\ ret' = [fn |-> "validar_telefone", val |-> validar_telefone(arg)]
    /\ UNCHANGED <<store, nextId, req, resp, sess, arg, borrows>>

Retorna ==
    /\ ret # NoRet
    /\ ret' = NoRet
    /\ UNCHANGED <<store, nextId, req, resp, sess, arg, borrows>>

NextValidar ==
    \/ Chama_validar_cnpj
    \/ Chama_validar_email
    \/ Chama_validar_telefone
    \/ Retorna

SpecValidar == InitValidar /\ [][NextValidar]_vars

(***************************************************************************)
(* The Borrow lifecycle: Open when created, Returned when given back.      *)
(* borrows[b] is Borrow b: the BookCopy it lends and its status.           *)
(***************************************************************************)
Copies == {1, 2}

\* a faulty variant: no copy is ever seen as lent
TemAberto_nunca(bs, c) == FALSE

\* the copy is the subject of an Open Borrow
TemAberto(bs, c) ==
    \E b \in DOMAIN bs : bs[b].copy = c /\ bs[b].status = "Open"

criar_borrow(c) ==
    /\ req' = [op |-> "emprestar", id |-> c, p |-> SemPayload]
    /\ IF TemAberto(borrows, c)
         THEN /\ resp' = Resp("Conflict", 0)
              /\ UNCHANGED borrows
         ELSE /\ Len(borrows) < MaxBorrow
              /\ borrows' = Append(borrows, [copy |-> c, status |-> "Open"])
              /\ resp' = Resp("ok", Len(borrows) + 1)
    /\ UNCHANGED <<store, nextId, sess, arg, ret>>

devolver_borrow(b) ==
    /\ req' = [op |-> "devolver", id |-> b, p |-> SemPayload]
    /\ IF b \notin DOMAIN borrows
         THEN /\ resp' = Resp("NotFound", b)
              /\ UNCHANGED borrows
         ELSE IF borrows[b].status # "Open"
           THEN /\ resp' = Resp("Conflict", b)
                /\ UNCHANGED borrows
         ELSE /\ borrows' = [borrows EXCEPT ![b].status = "Returned"]
              /\ resp' = Resp("ok", b)
    /\ UNCHANGED <<store, nextId, sess, arg, ret>>

NextBorrow ==
    \/ \E c \in Copies : criar_borrow(c)
    \/ \E b \in 1..MaxBorrow : devolver_borrow(b)

SpecBorrow == Init /\ [][NextBorrow]_vars

(***************************************************************************)
(* Properties.                                                             *)
(***************************************************************************)
\* a handler step: the pending request req gets its response resp'
Handled == req # NoReq /\ resp = NoResp /\ resp' # NoResp

\* the optional contact fields of a payload are None, empty or well formed
ContatoValido(p) ==
    /\ p.email_contato = None \/ p.email_contato = Some(Vazia)
          \/ validar_email(p.email_contato[1])
    /\ p.numero_contato = None \/ p.numero_contato = Some(Vazia)
          \/ validar_telefone(p.numero_contato[1])

C2_CriarDuasVezes ==
    [][(Handled /\ req.op = "criar" /\ validar_cnpj(req.p.cnpj[1])
          /\ ContatoValido(req.p))
       => LET limpo == Some(SoDigitos(req.p.cnpj[1]))
          IN  IF \E i \in DOMAIN store : store[i].cnpj = limpo
                THEN resp'.kind = "Conflict" /\ store' = store
                ELSE /\ resp'.kind = "ok"
                     /\ resp'.id \notin DOMAIN store
                     /\ DOMAIN store' = DOMAIN store \cup {resp'.id}
                     /\ \A i \in DOMAIN store : store'[i] = store[i]
                     /\ store'[resp'.id].cnpj = limpo
                     /\ \A f \in Campos \ {"cnpj"} :
                           store'[resp'.id][f] = req.p[f]]_vars

\* the second request wrote the cnpj another way than it is stored, carried
\* another legal name than the stored company, and got Conflict
C2_Witness ==
    /\ req.op = "criar"
    /\ resp.kind = "Conflict"
    /\ \E i \in DOMAIN store :
          /\ store[i].cnpj = Some(SoDigitos(req.p.cnpj[1]))
          /\ store[i].cnpj # req.p.cnpj
          /\ store[i].razao_social # req.p.razao_social
    /\ Cardinality({i \in DOMAIN store :
                      store[i].cnpj = Some(SoDigitos(req.p.cnpj[1]))}) = 1

\* C3: an update of stored company A that supplies a valid cnpj fails with
\* Conflict and changes nothing when another stored company has that
\* stripped cnpj; when the stripped cnpj is A's own it does not fail with
\* Conflict, and succeeds when the contact fields it supplies are well formed.
C3_ConflitoExcluiProprio ==
    [][(Handled /\ req.op = "atualizar" /\ req.id \in DOMAIN store
          /\ req.p.cnpj # None /\ validar_cnpj(req.p.cnpj[1]))
       => LET limpo == Some(SoDigitos(req.p.cnpj[1]))
          IN  /\ (\E j \in DOMAIN store : j # req.id /\ store[j].cnpj = limpo)
                   => (resp'.kind = "Conflict" /\ store' = store)
              /\ store[req.id].cnpj = limpo
                   => /\ resp'.kind # "Conflict"
                      /\ ContatoValido(req.p)
                           => (resp'.kind = "ok" /\ store'[req.id].cnpj = limpo)]_vars

\* an update of one company with the cnpj of another got Conflict
C3_Witness ==
    /\ req.op = "atualizar"
    /\ req.id \in DOMAIN store
    /\ resp.kind = "Conflict"
    /\ validar_cnpj(req.p.cnpj[1])
    /\ \E j \in DOMAIN store :
          j # req.id /\ store[j].cnpj = Some(SoDigitos(req.p.cnpj[1]))

\* C4: a successful update writes the fields its payload carries (the cnpj
\* stripped to digits), keeps every other field of the row as it was, and
\* leaves every other row as it was.
C4_SoCamposFornecidos ==
    [][(Handled /\ req.op = "atualizar" /\ resp'.kind = "ok")
       => /\ DOMAIN store' = DOMAIN store
          /\ \A j \in DOMAIN store \ {req.id} : store'[j] = store[j]
          /\ \A f \in Campos \ req.p.fields_set :
                store'[req.id][f] = store[req.id][f]
          /\ \A f \in req.p.fields_set \ {"cnpj"} :
                store'[req.id][f] = req.p[f]
          /\ "cnpj" \in req.p.fields_set
                => store'[req.id].cnpj = Some(SoDigitos(req.p.cnpj[1]))]_vars

\* the payload carried only razao_social, and the row's website is still "w"
C4_Witness ==
    /\ req.op = "atualizar"
    /\ resp.kind = "ok"
    /\ req.p.fields_set = {"razao_social"}
    /\ store[req.id].website = Some(<<"w">>)
    /\ store[req.id].razao_social = req.p.razao_social
    /\ Cardinality(DOMAIN store) = 2

\* a value the payload supplies for f, which f's validator rejects
Rejeitado(p) ==
    \/ "cnpj" \in p.fields_set /\ p.cnpj # None /\ ~validar_cnpj(p.cnpj[1])
    \/ "email_contato" \in p.fields_set /\ p.email_contato # None
         /\ ~validar_email(p.email_contato[1])
    \/ "numero_contato" \in p.fields_set /\ p.numero_contato # None
         /\ ~validar_telefone(p.numero_contato[1])

\* C5: an update of a stored company whose payload supplies a cnpj, email or
\* phone that its validator rejects (the empty string included) fails with
\* ValidationError and leaves the store as it was.
C5_AtualizarRevalida ==
    [][(Handled /\ req.op = "atualizar" /\ req.id \in DOMAIN store
          /\ Rejeitado(req.p))
       => (resp'.kind = "ValidationError" /\ store' = store)]_vars

\* C6: every stored company's cnpj is exactly 14 digit characters.
C6_CnpjQuatorzeDigitos ==
    \A i \in DOMAIN store :
       /\ store[i].cnpj # None
       /\ Len(store[i].cnpj[1]) = 14
       /\ \A k \in 1..Len(store[i].cnpj[1]) : store[i].cnpj[1][k] \in Digitos

\* C7: get, update and delete of an id that is not stored fail with NotFound
\* whatever the payload, and change nothing; delete of a stored id removes
\* that row and no other.
C7_NaoEncontrada ==
    [][(Handled /\ req.op \in {"buscar", "atualizar", "deletar"})
       => /\ req.id \notin DOMAIN store
               => (resp'.kind = "NotFound" /\ store' = store)
          /\ (req.op = "deletar" /\ req.id \in DOMAIN store)
               => /\ resp'.kind = "ok"
                  /\ DOMAIN store' = DOMAIN store \ {req.id}
                  /\ \A j \in DOMAIN store' : store'[j] = store[j]]_vars

\* an update of an id that is not stored, carrying a cnpj the validator
\* rejects, got NotFound while another company is stored
C7_Witness ==
    /\ req.op = "atualizar"
    /\ req.id \notin DOMAIN store
    /\ resp.kind = "NotFound"
    /\ req.p.cnpj = Some(CnpjIguais)
    /\ DOMAIN store # {}

\* C8: validar_cnpj is true exactly when the digit characters of its
\* argument are 14 and not all the same; the argument and its digits alone
\* get the same answer.
C8_ValidarCnpj ==
    ret.fn = "validar_cnpj"
    => LET pos == {k \in 1..Len(arg) : arg[k] \in Digitos}
       IN  /\ ret.val = (/\ Cardinality(pos) = 14
                         /\ \E k, m \in pos : arg[k] # arg[m])
           /\ ret.val = validar_cnpj(SoDigitos(arg))

\* 14 digits, not all the same, written with a separator, were accepted
C8_Witness ==
    /\ ret.fn = "validar_cnpj"
    /\ ret.val
    /\ Len(arg) > 14
    /\ \E k \in 1..Len(arg) : arg[k] \notin Digitos

\* C9: no BookCopy has two Open Borrows; a create against a copy with an
\* Open Borrow fails with Conflict and adds nothing, and a create against a
\* copy without one (never lent, or its Borrow Returned) succeeds.
C9_UmEmprestimoAberto ==
    /\ [](\A c \in Copies :
            Cardinality({b \in DOMAIN borrows :
                           borrows[b].copy = c /\ borrows[b].status = "Open"}) <= 1)
    /\ [][req'.op = "emprestar"
          => IF \E b \in DOMAIN borrows :
                   borrows[b].copy = req'.id /\ borrows[b].status = "Open"
               THEN resp'.kind = "Conflict" /\ borrows' = borrows
               ELSE /\ resp'.kind = "ok"
                    /\ borrows' = Append(borrows, [copy |-> req'.id,
                                                   status |-> "Open"])]_vars

\* a copy whose Borrow was Returned was lent again
C9_Witness ==
    /\ req.op = "emprestar"
    /\ resp.kind = "ok"
    /\ \E b \in DOMAIN borrows :
          /\ b # resp.id
          /\ borrows[b].copy = req.id
          /\ borrows[b].status = "Returned"
    /\ borrows[resp.id].status = "Open"

\* C10: of two create requests for the same stripped cnpj, each in its own
\* session, when one has persisted its company the other ends with Conflict;
\* and no two stored companies share a cnpj.
C10_CorridaDaConflict ==
    /\ \A i, j \in DOMAIN store : store[i].cnpj = store[j].cnpj => i = j
    /\ \A s, t \in Sessions :
          (/\ s # t
           /\ sess[s].pc = "feito" /\ sess[t].pc = "feito"
           /\ sess[s].resp.kind = "ok"
           /\ CriarValida(sess[t].p) = "ok"
           /\ SoDigitos(sess[s].p.cnpj[1]) = SoDigitos(sess[t].p.cnpj[1]))
          => sess[t].resp.kind = "Conflict"

====
